---------------------------- MODULE Spec2Model ----------------------------
(***************************************************************************)
(* Model of the Training Planner PWA (src/script.js): plan generation,     *)
(* per-day completion recording with carry-over, end-of-cycle difficulty   *)
(* adaptation, and the UI handlers that drive them against localStorage.   *)
(*                                                                         *)
(* Conventions                                                             *)
(*  - Dates are day numbers; an instant is a tick count, TicksPerDay ticks *)
(*    per day, tick 0 of a day being 00:00 UTC.  `new Date("YYYY-MM-DD")`  *)
(*    is tick 0 of that day; toISOString().substring(0,10) is the day of   *)
(*    the instant.  setDate/getDate work on local wall-clock time: in the  *)
(*    user's time zone the clocks go forward one hour on day SpringForward *)
(*    (see AddDays); before that day the zone behaves as one without       *)
(*    daylight saving.                                                     *)
(*  - A difficulty is an integer number of ten-thousandths (1.0 = 10000);  *)
(*    a next-difficulty factor is a number of hundredths (1.1 = 110).      *)
(*  - Strings of the catalog are transliterated to ASCII.                  *)
(*  - Recorded quantities are integers, or an input field left empty;      *)
(*    fractional quantities are not enumerated.                            *)
(*  - calculateDayCompletion returns done / total in IEEE double           *)
(*    arithmetic.  The model keeps the pair [done, total] and converts it  *)
(*    to a double (Fl* operators below) where the code does arithmetic on  *)
(*    the quotient (determineNextDifficulty).                              *)
(*  - An exercise's completed is an integer, or NaN, held as isNaN = TRUE  *)
(*    with completed = 0; only a direct call of updateDayCompletion with a *)
(*    value that is not a number stores NaN (SpecCore).                    *)
(*  - One user, one browser tab.  The day dialog and the settings dialog   *)
(*    are taken to be overlays that cover the page, so that while one is   *)
(*    open the other cannot be opened.  The stored user always has a       *)
(*    preferences object with a non-zero difficulty, as the registration   *)
(*    handler writes it.                                                   *)
(***************************************************************************)
EXTENDS Integers, Sequences, FiniteSets, TLC

\* ------------------------------------------------------------------------
\* Program constants
\* ------------------------------------------------------------------------

\* for (let i = 0; i < 30; i++)
CycleLength == 30

\* end.setDate(end.getDate() + 29)
EndOffset == 29

\* getDayTemplate(i % 7)
WeekLength == 7

\* Units of the difficulty representation (ten-thousandths).
DiffOne == 10000

\* ------------------------------------------------------------------------
\* Small helpers
\* ------------------------------------------------------------------------

Max(a, b) == IF a >= b THEN a ELSE b

Min(a, b) == IF a <= b THEN a ELSE b

\* Array.prototype.map over a sequence.
RECURSIVE SumSeq(_)
SumSeq(s) == IF s = <<>> THEN 0 ELSE s[1] + SumSeq(Tail(s))

\* Math.round(n / d) for d > 0: nearest integer, ties upwards (floor(x + 0.5),
\* also for a negative n).
RoundDiv(n, d) == (2 * n + d) \div (2 * d)

\* ------------------------------------------------------------------------
\* Exercise template catalog (getDayTemplate)
\* ------------------------------------------------------------------------

Tmpl(n, t, u, d, e) ==
    [name |-> n, target |-> t, unit |-> u, description |-> d, equipment |-> e]

\* The rest-day template has no equipment field (undefined); it is modelled
\* as the empty list, which adaptExerciseForEquipment treats alike.
getDayTemplate(dayIndex) ==
    CASE dayIndex = 0 ->
           << Tmpl("Genuflexiuni cu gantere", 30, "reps",
                   "3 seturi a 10 genuflexiuni cu gantere.", <<"gantere">>),
              Tmpl("Flotari clasice", 40, "reps",
                   "4 seturi de flotari standard.", <<>>),
              Tmpl("Shoulder press cu gantere", 24, "reps",
                   "3 seturi a 8 ridicari deasupra capului.", <<"gantere">>),
              Tmpl("Flotari diamante", 20, "reps",
                   "2 seturi a 10 flotari cu palmele apropiate.", <<>>),
              Tmpl("Plank", 60, "sec",
                   "3 planse de cate 20 de secunde.", <<>>) >>
      [] dayIndex = 1 ->
           << Tmpl("Tractiuni asistate", 15, "reps",
                   "Folosind o banda elastica, efectueaza 3 seturi a 5 tractiuni.",
                   <<"banda">>),
              Tmpl("Tractiuni negative", 10, "reps",
                   "Sari la bara si coboara lent, 2-3 secunde pe repetare.", <<>>),
              Tmpl("Ramat cu gantera", 30, "reps",
                   "3 seturi a 10 pentru fiecare brat.", <<"gantere">>),
              Tmpl("Biceps curls", 30, "reps",
                   "3 seturi a 10 flexii cu gantere.", <<"gantere">>),
              Tmpl("Plank lateral", 60, "sec",
                   "2 seturi, 30 de secunde pe fiecare parte.", <<>>) >>
      [] dayIndex = 2 ->
           << Tmpl("Mers inclinat", 30, "min",
                   "30 de minute de mers alert pe banda inclinata sau in aer liber.",
                   <<>>),
              Tmpl("Stretching", 10, "min",
                   "10 minute de stretching si mobilitate.", <<>>) >>
      [] dayIndex = 3 ->
           << Tmpl("Fandari", 40, "reps",
                   "20 pe fiecare picior, 2 seturi.", <<>>),
              Tmpl("Flotari declinate", 30, "reps",
                   "3 seturi a 10 flotari cu picioarele ridicate.", <<>>),
              Tmpl("Flotari la spalier", 24, "reps",
                   "2 seturi a 12 flotari la spalier sau perete.", <<>>),
              Tmpl("Extensii triceps", 30, "reps",
                   "3 seturi a 10 extensii cu gantera sau banda.",
                   <<"gantere", "banda">>),
              Tmpl("Abdomene mixte", 30, "reps",
                   "Combinatii de crunch-uri si ridicari de picioare.", <<>>) >>
      [] dayIndex = 4 ->
           << Tmpl("Tractiuni negative", 10, "reps",
                   "Incetineste coborarea cat poti.", <<>>),
              Tmpl("Tractiuni asistate", 15, "reps",
                   "Banda elastica cu rezistenta medie, 3 seturi.", <<"banda">>),
              Tmpl("Ramat inversat", 30, "reps",
                   "3 seturi a 10 la spalier sau bara joasa.", <<>>),
              Tmpl("Hammer curls", 24, "reps",
                   "2 seturi a 12 cu gantere.", <<"gantere">>),
              Tmpl("Ridicari genunchi atarnat", 20, "reps",
                   "3 seturi a 5-8 ridicari de genunchi.", <<>>) >>
      [] dayIndex = 5 ->
           << Tmpl("Alergare + mers", 30, "min",
                   "20 minute alergare usoara, 10 minute mers.", <<>>),
              Tmpl("Stretching", 15, "min",
                   "Stretching amplu pentru tot corpul.", <<>>) >>
      [] dayIndex = 6 ->
           << Tmpl("Odihna completa", 1, "rest",
                   "Relaxeaza-te, hidrateaza-te si pregateste-te pentru saptamana urmatoare.",
                   <<>>) >>
      [] OTHER -> <<>>

\* ------------------------------------------------------------------------
\* Equipment adapter (adaptExerciseForEquipment)
\* ------------------------------------------------------------------------

\* equipmentPrefs is the set of tags whose checkbox value is true.
adaptExerciseForEquipment(exercise, equipmentPrefs) ==
    IF Len(exercise.equipment) = 0
    THEN exercise
    ELSE IF \A i \in 1..Len(exercise.equipment) :
                exercise.equipment[i] \in equipmentPrefs
    THEN exercise
    ELSE [exercise EXCEPT
            !.target = Max(1, RoundDiv(exercise.target, 2)),
            !.name = exercise.name \o " (adaptat)",
            !.description = exercise.description
                              \o " (adaptat pentru lipsa echipamentului)"]

\* ------------------------------------------------------------------------
\* IEEE-754 double arithmetic on the non-negative values the program forms
\* from completion ratios (quotients, their running sum, the average).
\*
\* A value is a sequence of limbs in base 2^16: limb 1 is the integer part,
\* the others the fraction, most significant first.  Every double the
\* program forms here is at least 2^-20 when it is not 0 and below 2^16, so
\* its 53 significant bits fit the sequence, and sums of two such doubles
\* are exact in it before rounding.
\* ------------------------------------------------------------------------

LimbBits == 4 * 4

Limb == 2 ^ LimbBits

\* Significand width of a double.
Precision == 53

BigZero == <<0, 0, 0, 0, 0, 0, 0>>

BigOne == <<1, 0, 0, 0, 0, 0, 0>>

RECURSIVE BitLen(_)
BitLen(v) == IF v = 0 THEN 0 ELSE 1 + BitLen(v \div 2)

\* Propagates carries from the least significant limb upwards.
RECURSIVE Carry(_, _)
Carry(s, c) ==
    IF s = <<>> THEN <<>>
    ELSE LET n == Len(s)
             v == s[n] + c
         IN  Carry(SubSeq(s, 1, n - 1), v \div Limb) \o <<v % Limb>>

BigAdd(a, b) == Carry([i \in 1..Len(a) |-> a[i] + b[i]], 0)

BigLess(a, b) ==
    \E i \in 1..Len(a) : a[i] < b[i] /\ \A j \in 1..(i - 1) : a[j] = b[j]

\* The limbs of the fraction r / d (r < d), k limbs of it.
RECURSIVE QuotLimbs(_, _, _)
QuotLimbs(r, d, k) ==
    IF k = 0 THEN <<>>
    ELSE <<(r * Limb) \div d>> \o QuotLimbs((r * Limb) % d, d, k - 1)

RECURSIVE QuotRem(_, _, _)
QuotRem(r, d, k) == IF k = 0 THEN r ELSE QuotRem((r * Limb) % d, d, k - 1)

\* n / d truncated to the limbs kept, and whether anything was cut off.
BigQuot(n, d) ==
    [limbs   |-> <<n \div d>> \o QuotLimbs(n % d, d, Len(BigZero) - 1),
     inexact |-> QuotRem(n % d, d, Len(BigZero) - 1) # 0]

\* s / k for a small integer k, truncated, by short division.
RECURSIVE DivLimbs(_, _, _)
DivLimbs(s, k, r) ==
    IF s = <<>> THEN <<>>
    ELSE LET v == r * Limb + s[1]
         IN  <<v \div k>> \o DivLimbs(Tail(s), k, v % k)

RECURSIVE DivRem(_, _, _)
DivRem(s, k, r) ==
    IF s = <<>> THEN r ELSE DivRem(Tail(s), k, (r * Limb + s[1]) % k)

\* Rounds x = [limbs, inexact] to Precision significant bits, to nearest,
\* ties to even (the rounding of every double operation).
FlRound(x) ==
    LET s == x.limbs
    IN  IF \A i \in 1..Len(s) : s[i] = 0 THEN s
        ELSE
          LET top == CHOOSE i \in 1..Len(s) :
                        s[i] # 0 /\ \A j \in 1..(i - 1) : s[j] = 0
              \* index, from the most significant bit of limb 1, of the
              \* first bit that does not fit the significand
              cut == LimbBits * (top - 1) + (LimbBits - BitLen(s[top]))
                       + Precision
              li == cut \div LimbBits + 1
              o == cut % LimbBits
              w == 2 ^ (LimbBits - o)
              dropped == s[li] % w
              half == w \div 2
              roundBit == dropped >= half
              rest == \/ dropped % half # 0
                      \/ \E j \in (li + 1)..Len(s) : s[j] # 0
                      \/ x.inexact
              odd == IF o > 0 THEN (s[li] \div w) % 2 = 1
                              ELSE s[li - 1] % 2 = 1
              kept == [j \in 1..Len(s) |->
                         IF j < li THEN s[j]
                         ELSE IF j = li THEN s[j] - dropped ELSE 0]
          IN  IF roundBit /\ (rest \/ odd)
              THEN Carry([j \in 1..Len(s) |->
                            IF j = li THEN kept[j] + w ELSE kept[j]], 0)
              ELSE kept

\* The double n / d for integers 0 <= n, 0 < d.
FlQuot(n, d) == FlRound(BigQuot(n, d))

\* The double a + b.
FlAdd(a, b) == FlRound([limbs |-> BigAdd(a, b), inexact |-> FALSE])

\* The double a / k for an integer k > 0.
FlDivInt(a, k) ==
    FlRound([limbs |-> DivLimbs(a, k, 0), inexact |-> DivRem(a, k, 0) # 0])

\* ------------------------------------------------------------------------
\* Dates
\* ------------------------------------------------------------------------

\* Ticks per day: tick 0 of a day is 00:00 UTC, the others are later that day.
TicksPerDay == 1 + 1

\* date.toISOString().substring(0, 10)
DateOf(instant) == instant \div TicksPerDay

\* new Date("YYYY-MM-DD")
InstantOf(date) == date * TicksPerDay

\* The day on which the clocks of the user's time zone go forward.
SpringForward == 45

\* d.setDate(d.getDate() + n): the same local wall-clock time n local days
\* later.  When the clocks go forward in between, that is one hour less than
\* n * 24 hours of UTC: an instant at 00:00 UTC lands at 23:00 UTC of the day
\* before (the last tick of that day), a later instant stays within its day.
AddDays(instant, n) ==
    LET plain == instant + n * TicksPerDay
        crosses == /\ DateOf(instant) < SpringForward
                   /\ SpringForward <= DateOf(plain)
    IN  IF crosses /\ instant % TicksPerDay = 0 THEN plain - 1 ELSE plain

\* ------------------------------------------------------------------------
\* Plan generator (createPlan)
\* ------------------------------------------------------------------------

\* Variant of ScaleTarget that scales by 2 - difficulty, so that a multiplier
\* above 1 lowers the target; ScalingIsMonotonic does not hold with it.
ScaleTargetMirrored(cloned, difficulty) ==
    IF cloned.unit # "rest" /\ cloned.target > 0
    THEN Max(1, RoundDiv(cloned.target * (2 * DiffOne - difficulty), DiffOne))
    ELSE cloned.target

\* Math.max(1, Math.round(newTarget * difficulty)), skipped for the rest
\* unit and for a zero target.
ScaleTarget(cloned, difficulty) ==
    IF cloned.unit # "rest" /\ cloned.target > 0
    THEN Max(1, RoundDiv(cloned.target * difficulty, DiffOne))
    ELSE cloned.target

\* Variant of PlanExercise that runs the adapter on its own result;
\* AdaptedOnceThenScaled does not hold with it.
PlanExerciseTwice(ex, difficulty, preferences) ==
    LET once == adaptExerciseForEquipment(ex, preferences.equipment)
        cloned == adaptExerciseForEquipment(once, preferences.equipment)
    IN  [name        |-> cloned.name,
         target      |-> ScaleTarget(cloned, difficulty),
         unit        |-> cloned.unit,
         description |-> cloned.description,
         equipment   |-> cloned.equipment,
         completed   |-> 0,
         isNaN       |-> FALSE]

\* The body of templateExercises.map(...).  Every caller passes preferences
\* with an equipment object, so the adapter always runs.
PlanExercise(ex, difficulty, preferences) ==
    LET cloned == adaptExerciseForEquipment(ex, preferences.equipment)
    IN  [name        |-> cloned.name,
         target      |-> ScaleTarget(cloned, difficulty),
         unit        |-> cloned.unit,
         description |-> cloned.description,
         equipment   |-> cloned.equipment,
         completed   |-> 0,
         isNaN       |-> FALSE]

\* Variant of PlanDay that takes the template of the next weekday;
\* IdentityPlanIsCatalog does not hold with it.
PlanDayShifted(i, difficulty, preferences) ==
    LET templateExercises == getDayTemplate((i + 1) % WeekLength)
    IN  [exercises  |-> [j \in 1..Len(templateExercises) |->
                           PlanExercise(templateExercises[j], difficulty,
                                        preferences)],
         feedback   |-> "",
         completion |-> [num |-> 0, den |-> 1]]

\* The body of the loop over the 30 days: the exercises of day i.
PlanDay(i, difficulty, preferences) ==
    LET templateExercises == getDayTemplate(i % WeekLength)
    IN  [exercises  |-> [j \in 1..Len(templateExercises) |->
                           PlanExercise(templateExercises[j], difficulty,
                                        preferences)],
         feedback   |-> "",
         completion |-> [num |-> 0, den |-> 1]]

createPlan(startDate, difficulty, preferences) ==
    [startDate  |-> DateOf(startDate),
     days       |-> [i \in 1..CycleLength |->
                       PlanDay(i - 1, difficulty, preferences)],
     difficulty |-> difficulty,
     endDate    |-> DateOf(AddDays(startDate, EndOffset))]

\* ------------------------------------------------------------------------
\* Completion ratio (calculateDayCompletion)
\* ------------------------------------------------------------------------

Abs(n) == IF n < 0 THEN 0 - n ELSE n

RECURSIVE GCD(_, _)
GCD(a, b) == IF b = 0 THEN a ELSE GCD(b, a % b)

\* The number n / d (d > 0) as a fraction in lowest terms, so that equal
\* numbers are equal values.
Ratio(n, d) ==
    LET g == GCD(Abs(n), d)
    IN  [num |-> n \div g, den |-> d \div g]

RatioZero == [num |-> 0, den |-> 1]

ExTotal(ex) == IF ex.unit = "rest" THEN 1 ELSE ex.target

\* Variant of ExDone without the Math.min(..., target) cap; RatioByCases does
\* not hold with it.
ExDoneUncapped(ex) ==
    IF ex.unit = "rest"
    THEN (IF ex.completed > 0 THEN 1 ELSE 0)
    ELSE ex.completed

ExDone(ex) ==
    IF ex.unit = "rest"
    THEN (IF ex.completed > 0 THEN 1 ELSE 0)
    ELSE Min(ex.completed, ex.target)

calculateDayCompletion(day) ==
    LET exercises == day.exercises
        total == SumSeq([i \in 1..Len(exercises) |-> ExTotal(exercises[i])])
        done == SumSeq([i \in 1..Len(exercises) |-> ExDone(exercises[i])])
    IN  IF Len(exercises) = 0 THEN RatioZero
        ELSE IF total = 0 THEN RatioZero
        ELSE Ratio(done, total)

\* ------------------------------------------------------------------------
\* Cycle adapter (determineNextDifficulty)
\* ------------------------------------------------------------------------

\* The double that calculateDayCompletion returns: done / total.
FlRatio(r) == FlQuot(r.num, r.den)

\* sum += calculateDayCompletion(d), over the first n days in order.
RECURSIVE SumCompletion(_, _, _)
SumCompletion(days, n, acc) ==
    IF n > Len(days) THEN acc
    ELSE LET nxt == FlAdd(acc, FlRatio(calculateDayCompletion(days[n])))
         IN  IF nxt = BigZero
             THEN SumCompletion(days, n + 1, BigZero)
             ELSE SumCompletion(days, n + 1, nxt)

\* The literals 0.8 and 0.5.
FlLit08 == FlQuot(4, 5)

FlLit05 == FlQuot(1, 2)

determineNextDifficulty(plan) ==
    LET sum == SumCompletion(plan.days, 1, BigZero)
        avg == FlDivInt(sum, Len(plan.days))
    IN  IF ~BigLess(avg, FlLit08) THEN 110
        ELSE IF BigLess(avg, FlLit05) THEN 80
        ELSE 100

\* ------------------------------------------------------------------------
\* Completion tracker (updateDayCompletion)
\* ------------------------------------------------------------------------

\* JavaScript values an entry of completedArray can hold: a number, NaN,
\* undefined (a hole, or an index past the end), or something that is not a
\* number.
JsNum(n) == [k |-> "number", v |-> n]

NaNVal == [k |-> "NaN", v |-> 0]

Undefined == [k |-> "undefined", v |-> 0]

\* completedArray[idx]
ArrayAt(completedArray, idx) ==
    IF idx + 1 \in DOMAIN completedArray THEN completedArray[idx + 1]
    ELSE Undefined

\* A value that is not a number and is not falsy, such as the string 'abc'.
NonNumeric == [k |-> "string", v |-> 0]

\* Variant of Coerce without the Math.max(0, ...) clamp; RatioInUnit does not
\* hold with it.
CoerceUnclamped(x) ==
    IF x.k = "number" THEN JsNum(x.v)
    ELSE IF x.k = "string" THEN NaNVal ELSE JsNum(0)

\* Math.max(0, Number(v || 0)): NaN and undefined are falsy and become 0; a
\* truthy value that Number() cannot read becomes NaN, and Math.max(0, NaN)
\* is NaN.
Coerce(x) ==
    IF x.k = "number" THEN JsNum(Max(0, x.v))
    ELSE IF x.k = "string" THEN NaNVal ELSE JsNum(0)

\* Variant of CarryOverOf that carries the whole target over instead of the
\* remainder; CarryOverAppended does not hold with it.
CarryOverOfWhole(ex, remaining) ==
    [name        |-> ex.name \o " (recuperare)",
     target      |-> ex.target,
     unit        |-> ex.unit,
     description |-> "Recupereaza seturile nefinalizate de " \o ex.name,
     equipment   |-> <<>>,
     completed   |-> 0,
     isNaN       |-> FALSE]

\* The carry-over entry pushed for an exercise with remaining > 0.  It has no
\* equipment field; that is modelled as the empty list.
CarryOverOf(ex, remaining) ==
    [name        |-> ex.name \o " (recuperare)",
     target      |-> remaining,
     unit        |-> ex.unit,
     description |-> "Recupereaza seturile nefinalizate de " \o ex.name,
     equipment   |-> <<>>,
     completed   |-> 0,
     isNaN       |-> FALSE]

\* The exercises of the day after the forEach: ex.completed = completed.
\* A completed of NaN is held as isNaN = TRUE with completed = 0: NaN reads
\* as 0 wherever the code reads `ex.completed || 0` or `ex.completed > 0`.
RecordedExercises(exercises, completedArray) ==
    [i \in 1..Len(exercises) |->
        LET completed == Coerce(ArrayAt(completedArray, i - 1))
        IN  [name        |-> exercises[i].name,
             target      |-> exercises[i].target,
             unit        |-> exercises[i].unit,
             description |-> exercises[i].description,
             equipment   |-> exercises[i].equipment,
             completed   |-> completed.v,
             isNaN       |-> completed.k = "NaN"]]

\* The carryOver array after the forEach.
RECURSIVE CarryOverList(_, _)
CarryOverList(recorded, i) ==
    IF i > Len(recorded) THEN <<>>
    ELSE LET ex == recorded[i]
             remaining == ex.target - ex.completed
             \* target - NaN is NaN, and NaN > 0 is false
             positive == ~ex.isNaN /\ remaining > 0
         IN  (IF positive THEN <<CarryOverOf(ex, remaining)>> ELSE <<>>)
               \o CarryOverList(recorded, i + 1)

\* Variant of UpdatedDays that pushes the carry-overs onto the day before the
\* recorded one; RecordingFrame does not hold with it.
UpdatedDaysBackwards(days, dayIndex, completedArray, feedback) ==
    LET day == days[dayIndex + 1]
        recorded == RecordedExercises(day.exercises, completedArray)
        carryOver == CarryOverList(recorded, 1)
    IN  [i \in 1..Len(days) |->
           IF i = dayIndex + 1
           THEN [exercises  |-> recorded,
                 feedback   |-> feedback,
                 completion |-> calculateDayCompletion(
                                   [exercises |-> recorded])]
           ELSE IF i = dayIndex /\ Len(carryOver) > 0
           THEN [exercises  |-> days[i].exercises \o carryOver,
                 feedback   |-> days[i].feedback,
                 completion |-> days[i].completion]
           ELSE days[i]]

\* The days of the plan after lines 461-485.
UpdatedDays(days, dayIndex, completedArray, feedback) ==
    LET day == days[dayIndex + 1]
        recorded == RecordedExercises(day.exercises, completedArray)
        carryOver == CarryOverList(recorded, 1)
        pushes == Len(carryOver) > 0 /\ dayIndex < Len(days) - 1
    IN  [i \in 1..Len(days) |->
           IF i = dayIndex + 1
           THEN [exercises  |-> recorded,
                 feedback   |-> feedback,
                 completion |-> calculateDayCompletion(
                                   [exercises |-> recorded])]
           ELSE IF i = dayIndex + 2 /\ pushes
           THEN [exercises  |-> days[i].exercises \o carryOver,
                 feedback   |-> days[i].feedback,
                 completion |-> days[i].completion]
           ELSE days[i]]

\* Variant of updateDayCompletion that multiplies the factor into the finished
\* plan's own difficulty instead of the preference; BaselineTimesFactor does
\* not hold with it.
updateDayCompletionCompound(user, planIdx, dayIndex, completedArray, feedback) ==
    LET plan == user.plans[planIdx]
        newDays == UpdatedDays(plan.days, dayIndex, completedArray, feedback)
        newPlan == [startDate  |-> plan.startDate,
                    days       |-> newDays,
                    difficulty |-> plan.difficulty,
                    endDate    |-> plan.endDate]
        plans1 == [i \in 1..Len(user.plans) |->
                     IF i = planIdx THEN newPlan ELSE user.plans[i]]
        prefs == user.preferences
        difficultyFactor == determineNextDifficulty(newPlan)
        nextStartDate == AddDays(InstantOf(plan.endDate), 1)
        combinedDifficulty == (plan.difficulty * difficultyFactor) \div 100
    IN  IF dayIndex >= Len(plan.days) - 1
        THEN [plans       |-> Append(plans1,
                                createPlan(nextStartDate, combinedDifficulty,
                                           prefs)),
              preferences |-> prefs]
        ELSE [plans |-> plans1, preferences |-> prefs]

\* Variant of updateDayCompletion that wraps the carry-overs of the last day
\* into the first day of the plan it spawns; LastDayDropsCarryOver does not
\* hold with it.
updateDayCompletionWrap(user, planIdx, dayIndex, completedArray, feedback) ==
    LET plan == user.plans[planIdx]
        newDays == UpdatedDays(plan.days, dayIndex, completedArray, feedback)
        newPlan == [startDate  |-> plan.startDate,
                    days       |-> newDays,
                    difficulty |-> plan.difficulty,
                    endDate    |-> plan.endDate]
        plans1 == [i \in 1..Len(user.plans) |->
                     IF i = planIdx THEN newPlan ELSE user.plans[i]]
        prefs == user.preferences
        difficultyFactor == determineNextDifficulty(newPlan)
        nextStartDate == AddDays(InstantOf(plan.endDate), 1)
        combinedDifficulty == (prefs.difficulty * difficultyFactor) \div 100
        next == createPlan(nextStartDate, combinedDifficulty, prefs)
        carryOver == CarryOverList(newDays[dayIndex + 1].exercises, 1)
        wrapped == [startDate  |-> next.startDate,
                    days       |-> [i \in 1..Len(next.days) |->
                                      IF i = 1
                                      THEN [exercises  |->
                                              next.days[i].exercises
                                                \o carryOver,
                                            feedback   |-> "",
                                            completion |->
                                              next.days[i].completion]
                                      ELSE next.days[i]],
                    difficulty |-> next.difficulty,
                    endDate    |-> next.endDate]
    IN  IF dayIndex >= Len(plan.days) - 1
        THEN [plans |-> Append(plans1, wrapped), preferences |-> prefs]
        ELSE [plans |-> plans1, preferences |-> prefs]

\* user is [plans, preferences]; plan is user.plans[planIdx].  The result is
\* the user object after the call.
updateDayCompletion(user, planIdx, dayIndex, completedArray, feedback) ==
    LET plan == user.plans[planIdx]
        newDays == UpdatedDays(plan.days, dayIndex, completedArray, feedback)
        newPlan == [startDate  |-> plan.startDate,
                    days       |-> newDays,
                    difficulty |-> plan.difficulty,
                    endDate    |-> plan.endDate]
        plans1 == [i \in 1..Len(user.plans) |->
                     IF i = planIdx THEN newPlan ELSE user.plans[i]]
        prefs == user.preferences
        difficultyFactor == determineNextDifficulty(newPlan)
        nextStartDate == AddDays(InstantOf(plan.endDate), 1)
        combinedDifficulty == (prefs.difficulty * difficultyFactor) \div 100
    IN  IF dayIndex >= Len(plan.days) - 1
        THEN [plans       |-> Append(plans1,
                                createPlan(nextStartDate, combinedDifficulty,
                                           prefs)),
              preferences |-> prefs]
        ELSE [plans |-> plans1, preferences |-> prefs]

\* ------------------------------------------------------------------------
\* Current plan (getCurrentPlan): the index of the plan, 0 for null.
\* ------------------------------------------------------------------------

getCurrentPlan(user, today) ==
    IF Len(user.plans) = 0 THEN 0
    ELSE IF today > InstantOf(user.plans[Len(user.plans)].endDate) THEN 0
    ELSE Len(user.plans)

\* ------------------------------------------------------------------------
\* State
\* ------------------------------------------------------------------------

VARIABLES
    stored,     \* localStorage "users"[currentUser]: [plans, preferences]
    uiUser,     \* the user object the rendered calendar's closures hold
    uiPlan,     \* index in uiUser.plans of the plan they hold, 0 before any
    modal,      \* "none", "day" or "settings": the dialog that is open
    modalDay,   \* dayIndex of the open day dialog
    now,        \* the clock (new Date()), in ticks
    nRecords,   \* completion recordings so far
    nSettings,  \* preference saves so far
    nTicks,     \* clock advances so far
    last        \* the last completion recording: button, day, fields

vars == <<stored, uiUser, uiPlan, modal, modalDay, now, nRecords, nSettings,
          nTicks, last>>

\* ------------------------------------------------------------------------
\* Bounds of the exploration
\* ------------------------------------------------------------------------

\* Events of a run of Spec: completion recordings (save or skip), preference
\* saves and clock advances, counted together.
MaxEvents == 3

Events == nRecords + nSettings + nTicks

\* Plans in the history at which a run of SpecCycle stops recording.
MaxPlans == 3

\* Days the user opens in Spec.
DayInputs == {0, 1, CycleLength - 1}

\* How far the clock advances in one step: one tick, or up to 00:00 UTC of
\* the day a plan started on a tick 0 ends.
ClockSteps == {1, EndOffset * TicksPerDay}

\* ------------------------------------------------------------------------
\* User inputs
\* ------------------------------------------------------------------------

AllEquipment == {"gantere", "banda", "vesta"}

\* The preferences the registration handler stores.
DefaultPreferences == [difficulty |-> DiffOne, equipment |-> AllEquipment]

\* What the settings dialog can be saved with (a subset of the 3 x 8 choices).
PrefInputs ==
    { [difficulty |-> (DiffOne * 12) \div 10, equipment |-> {"banda", "vesta"}],
      [difficulty |-> (DiffOne * 8) \div 10, equipment |-> AllEquipment] }

\* An input field of the day dialog: a number typed in, or left empty.
Typed(n) == [k |-> "typed", v |-> n]

EmptyField == [k |-> "empty", v |-> 0]

\* Number(inp.value): the empty string converts to 0.
NumberOf(field) == IF field.k = "typed" THEN JsNum(field.v) ELSE JsNum(0)

\* Ways of filling in the fields of a day, each a function of the exercise
\* and its 1-based position:
\*   full    every target met exactly
\*   over    every target exceeded by 5
\*   short   the first exercise 10 short of its target, the others exceeded
\*   short1  the first exercise 1 short of its target, the others met
\*   one     one unit of the first exercise, nothing of the others
\*   mixed   half of the first target, the second field left empty, negative
\*           numbers in the others
ProfileField(profile, ex, i) ==
    CASE profile = "full"   -> Typed(ex.target)
      [] profile = "over"   -> Typed(ex.target + 5)
      [] profile = "short"  -> IF i = 1
                               THEN Typed(Max(0, ex.target - 10))
                               ELSE Typed(ex.target + 5)
      [] profile = "short1" -> IF i = 1 THEN Typed(ex.target - 1)
                               ELSE Typed(ex.target)
      [] profile = "one"    -> IF i = 1 THEN Typed(1) ELSE Typed(0)
      [] profile = "mixed"  ->
           CASE i = 1   -> Typed(ex.target \div 2)
             [] i = 2   -> EmptyField
             [] OTHER   -> Typed(0 - 50)
      [] OTHER -> Typed(0)

FieldsFor(profile, exercises) ==
    [i \in 1..Len(exercises) |-> ProfileField(profile, exercises[i], i)]

\* The profiles the user saves with in Spec.
Profiles == {"short", "mixed"}

\* Text typed in the feedback box when saving.
SaveTexts == {"bine"}

\* ------------------------------------------------------------------------
\* Handlers
\* ------------------------------------------------------------------------

\* renderApp: the user object parsed from storage, with a plan created and
\* pushed when there is no current one; [user, plan].
renderApp(storedUser, today) ==
    LET current == getCurrentPlan(storedUser, today)
        prefs == storedUser.preferences
        created == createPlan(today, prefs.difficulty, prefs)
        user == IF current # 0 THEN storedUser
                ELSE [plans       |-> Append(storedUser.plans, created),
                      preferences |-> prefs]
    IN  [user |-> user, plan |-> Len(user.plans)]

\* The state after the registration handler: default preferences, no plan,
\* the account stored, then init() and renderApp().
Registered ==
    renderApp([plans |-> <<>>, preferences |-> DefaultPreferences], 0)

Init ==
    /\ stored = Registered.user
    /\ uiUser = Registered.user
    /\ uiPlan = Registered.plan
    /\ modal = "none"
    /\ modalDay = 0
    /\ now = 0
    /\ nRecords = 0
    /\ nSettings = 0
    /\ nTicks = 0
    /\ last = [op |-> "none", day |-> 0, fields |-> <<>>]

\* DOMContentLoaded (a reload, or a login): init() and renderApp().
Reload ==
    LET r == renderApp(stored, now)
    IN  /\ stored' = r.user
        /\ uiUser' = r.user
        /\ uiPlan' = r.plan
        /\ modal' = "none"
        /\ modalDay' = 0
            /\ UNCHANGED <<now, nRecords, nSettings, nTicks, last>>

\* Click on a day cell: openDayModal(user, plan, index).
OpenDay(k) ==
    /\ modal = "none"
    /\ uiPlan # 0
    /\ k \in 0..(Len(uiUser.plans[uiPlan].days) - 1)
    /\ modal' = "day"
    /\ modalDay' = k
    /\ UNCHANGED <<stored, uiUser, uiPlan, now, nRecords, nSettings, nTicks,
                   last>>

\* The close button, or a click outside the dialog.
CloseModal ==
    /\ modal # "none"
    /\ modal' = "none"
    /\ modalDay' = 0
    /\ UNCHANGED <<stored, uiUser, uiPlan, now, nRecords, nSettings, nTicks,
                   last>>

\* What both buttons of the day dialog do after updateDayCompletion: store
\* the user object, hide the dialog, renderApp().
AfterRecording(user, op, fields) ==
    LET r == renderApp(user, now)
    IN  /\ stored' = r.user
        /\ uiUser' = r.user
        /\ uiPlan' = r.plan
        /\ modal' = "none"
        /\ modalDay' = 0
        /\ nRecords' = nRecords + 1
        /\ last' = [op |-> op, day |-> modalDay, fields |-> fields]
        /\ UNCHANGED <<now, nSettings, nTicks>>

\* The save button of the day dialog.
SaveDay(fields, text) ==
    /\ modal = "day"
    /\ LET completedTasks == [i \in 1..Len(fields) |-> NumberOf(fields[i])]
       IN  AfterRecording(
               updateDayCompletion(uiUser, uiPlan, modalDay, completedTasks,
                                   text),
               "save", fields)

\* The "Nu am lucrat" button: zeros, and "N/A" when no feedback was typed.
SkipDay(text) ==
    /\ modal = "day"
    /\ LET day == uiUser.plans[uiPlan].days[modalDay + 1]
           zeroCompleted == [i \in 1..Len(day.exercises) |-> JsNum(0)]
           feedback == IF text = "" THEN "N/A" ELSE text
       IN  AfterRecording(
               updateDayCompletion(uiUser, uiPlan, modalDay, zeroCompleted,
                                   feedback),
               "skip", <<>>)

\* The settings button: openSettingsModal reads the stored user.  Dialogs are
\* exclusive, so the stored user is the one the save handler writes back.
OpenSettings ==
    /\ modal = "none"
    /\ modal' = "settings"
    /\ modalDay' = 0
    /\ UNCHANGED <<stored, uiUser, uiPlan, now, nRecords, nSettings, nTicks,
                   last>>

\* The save button of the settings dialog; the calendar is not rendered again.
SaveSettings(newPrefs) ==
    /\ modal = "settings"
    /\ stored' = [plans |-> stored.plans, preferences |-> newPrefs]
    /\ modal' = "none"
    /\ modalDay' = 0
    /\ nSettings' = nSettings + 1
    /\ UNCHANGED <<uiUser, uiPlan, now, nRecords, nTicks, last>>

\* Time passes.
Tick(d) ==
    /\ now' = now + d
    /\ nTicks' = nTicks + 1
    /\ UNCHANGED <<stored, uiUser, uiPlan, modal, modalDay, nRecords,
                   nSettings, last>>

\* ------------------------------------------------------------------------
\* Spec: the handlers, with the user opening the days of DayInputs
\* ------------------------------------------------------------------------

OpenedDay == uiUser.plans[uiPlan].days[modalDay + 1]

Next ==
    \/ Reload
    \/ \E k \in DayInputs : Events < MaxEvents /\ OpenDay(k)
    \/ CloseModal
    \/ \E p \in Profiles, t \in SaveTexts :
          modal = "day" /\ SaveDay(FieldsFor(p, OpenedDay.exercises), t)
    \/ SkipDay("")
    \/ Events < MaxEvents /\ OpenSettings
    \/ \E p \in PrefInputs : SaveSettings(p)
    \/ \E d \in ClockSteps : Events < MaxEvents /\ Tick(d)

Spec == Init /\ [][Next]_vars

\* ------------------------------------------------------------------------
\* SpecCycle: the same handlers, driven by a user who works through a cycle
\* in order.  The days are recorded from day 0 on, each fully (odd days over
\* target); at one of the JumpPoints the user may leave the rest of the
\* cycle unrecorded and skip the last day, which ends the cycle.  In the
\* first cycle the user may instead do one unit on day 0 and then miss one
\* unit on day 14, and may change the preferences once before recording,
\* reloading the page or not.
\* ------------------------------------------------------------------------

\* Days recorded, in order, when the user skips to the last day.
JumpPoints == {14, 15, 16, 23, 24}

LastJump == CHOOSE j \in JumpPoints : \A i \in JumpPoints : i <= j

\* The first day of the plan not yet recorded (0-based), CycleLength if none.
RECURSIVE FirstUnrecorded(_, _)
FirstUnrecorded(days, i) ==
    IF i > Len(days) THEN Len(days)
    ELSE IF days[i].feedback = "" THEN i - 1
    ELSE FirstUnrecorded(days, i + 1)

Cursor == FirstUnrecorded(uiUser.plans[uiPlan].days, 1)

FirstCycle == Len(stored.plans) = 1

\* Day 0 of the plan on screen was recorded with one unit of one exercise.
OneUnitStart ==
    LET ex == uiUser.plans[uiPlan].days[1].exercises[1]
    IN  Cursor > 0 /\ ex.completed = 1

CycleDays ==
    (IF Cursor < LastJump THEN {Cursor} ELSE {})
      \cup (IF Cursor \in JumpPoints THEN {CycleLength - 1} ELSE {})

CycleProfiles(k) ==
    IF k = 0 THEN (IF FirstCycle THEN {"full", "one"} ELSE {"full"})
    ELSE IF k = 14 /\ OneUnitStart THEN {"short1"}
    ELSE IF k % 2 = 1 THEN {"over"}
    ELSE {"full"}

NextCycle ==
    \/ \E k \in CycleDays : Len(stored.plans) < MaxPlans /\ OpenDay(k)
    \/ \E p \in CycleProfiles(modalDay), t \in SaveTexts :
          /\ modal = "day"
          /\ modalDay < CycleLength - 1
          /\ SaveDay(FieldsFor(p, OpenedDay.exercises), t)
    \/ modalDay = CycleLength - 1 /\ SkipDay("")
    \/ FirstCycle /\ Cursor = 0 /\ nSettings = 0 /\ OpenSettings
    \/ \E p \in PrefInputs : SaveSettings(p)
    \/ nSettings > 0 /\ uiUser # stored /\ Reload

SpecCycle == Init /\ [][NextCycle]_vars

\* ------------------------------------------------------------------------
\* Properties of a recording step.  A step that increments nRecords is one
\* run of the save or the skip handler on the day modalDay of the plan
\* uiUser.plans[uiPlan]; the handler's result is in stored'.
\* ------------------------------------------------------------------------

Recorded == nRecords' = nRecords + 1

PlanBefore == uiUser.plans[uiPlan]

PlanAfter == stored'.plans[uiPlan]

LastDay == CycleLength - 1

\* The positions of the exercises left below target, in list order.
UnmetIndexes(exercises) ==
    LET Unmet(i) == exercises[i].target - exercises[i].completed > 0
    IN  SelectSeq([i \in 1..Len(exercises) |-> i], Unmet)

UnmetRemainder(exercises) ==
    SumSeq([i \in 1..Len(exercises) |->
              Max(0, exercises[i].target - exercises[i].completed)])

\* C1: a recording on a day k < 29 appends to day k+1, after the exercises
\* already there, one carry-over per exercise of day k left below target, in
\* the order of their sources, each with target = source target - recorded
\* completed, the source's unit and name plus the recovery marker, and
\* completed = 0; the appended targets sum to day k's unmet remainder.
CarryOverAppended ==
    [][(Recorded /\ modalDay < LastDay) =>
         LET src == PlanAfter.days[modalDay + 1].exercises
             old == PlanBefore.days[modalDay + 2].exercises
             new == PlanAfter.days[modalDay + 2].exercises
             unmet == UnmetIndexes(src)
             added == SubSeq(new, Len(old) + 1, Len(new))
         IN  /\ Len(new) = Len(old) + Len(unmet)
             /\ SubSeq(new, 1, Len(old)) = old
             /\ \A j \in 1..Len(unmet) :
                  /\ added[j].target =
                       src[unmet[j]].target - src[unmet[j]].completed
                  /\ added[j].unit = src[unmet[j]].unit
                  /\ added[j].name = src[unmet[j]].name \o " (recuperare)"
                  /\ added[j].completed = 0
             /\ SumSeq([j \in 1..Len(added) |-> added[j].target])
                  = UnmetRemainder(src)]_vars

\* Day 0 saved with 20 of the 30 "Genuflexiuni cu gantere" and the other
\* targets met: day 1 holds its five exercises and one carry-over of 10.
CarryOverSeen ==
    /\ last.op = "save"
    /\ last.day = 0
    /\ last.fields[1] = Typed(20)
    /\ stored.plans[1].days[1].exercises[1].target = 30
    /\ stored.plans[1].days[1].exercises[1].completed = 20
    /\ Len(stored.plans[1].days[2].exercises) = 6
    /\ stored.plans[1].days[2].exercises[6].target = 10
    /\ stored.plans[1].days[2].exercises[6].name
         = "Genuflexiuni cu gantere (recuperare)"

\* The current plan is absent for the render that ends a recording.
RenderCreates(user) == getCurrentPlan(user, now) = 0

\* C2: a recording on day k changes no day other than k and k+1 (so no day
\* before k), keeps the exercises day k+1 already had, changes no other plan
\* of the history, and for k < 29 adds no plan to the history (the render
\* that ends the handler pushes a plan of its own when the plan on screen
\* has expired).
RecordingFrame ==
    [][Recorded =>
         LET n == Len(uiUser.plans)
         IN  /\ \A i \in 1..Len(PlanBefore.days) :
                  i \notin {modalDay + 1, modalDay + 2}
                    => PlanAfter.days[i] = PlanBefore.days[i]
             /\ modalDay < LastDay =>
                  LET old == PlanBefore.days[modalDay + 2].exercises
                      new == PlanAfter.days[modalDay + 2].exercises
                  IN  /\ Len(new) >= Len(old)
                      /\ SubSeq(new, 1, Len(old)) = old
             /\ \A j \in 1..n :
                  j # uiPlan => stored'.plans[j] = uiUser.plans[j]
             /\ modalDay < LastDay =>
                  \/ Len(stored'.plans) = n
                  \/ /\ RenderCreates(uiUser)
                     /\ Len(stored'.plans) = n + 1]_vars

\* Day 1 recorded below target after day 0: day 0 keeps what was recorded on
\* it, day 2 received the carry-overs, day 3 is as generated.
FrameSeen ==
    /\ nRecords >= 2
    /\ last.day = 1
    /\ last.op = "save"
    /\ stored.plans[1].days[1].feedback # ""
    /\ Len(stored.plans[1].days[3].exercises)
         > Len(getDayTemplate(2))
    /\ Len(stored.plans[1].days[4].exercises) = Len(getDayTemplate(3))
    /\ Len(stored.plans) = 1

\* The exercises are those generated from the template: one per template
\* entry, in order, with its unit, its name (with the adaptation marker when
\* it was adapted) and nothing completed.
FromTemplate(exercises, template) ==
    /\ Len(exercises) = Len(template)
    /\ \A j \in 1..Len(template) :
         /\ exercises[j].unit = template[j].unit
         /\ exercises[j].name \in
              {template[j].name, template[j].name \o " (adaptat)"}
         /\ exercises[j].completed = 0

\* C3: a recording on day 29 appends no exercise to any day of the plan it
\* records on, and every day of the plan it spawns holds exactly the
\* exercises generated from its weekday template.
LastDayDropsCarryOver ==
    [][(Recorded /\ modalDay = LastDay) =>
         LET spawned == stored'.plans[Len(uiUser.plans) + 1]
         IN  /\ \A i \in 1..Len(PlanBefore.days) :
                  Len(PlanAfter.days[i].exercises)
                    = Len(PlanBefore.days[i].exercises)
             /\ \A i \in 1..LastDay :
                  PlanAfter.days[i] = PlanBefore.days[i]
             /\ \A i \in 1..Len(spawned.days) :
                  FromTemplate(spawned.days[i].exercises,
                               getDayTemplate((i - 1) % WeekLength))]_vars

\* Day 29 saved with its first exercise below target: the plan has a
\* successor.
LastDayUnmetSeen ==
    /\ last.op = "save"
    /\ last.day = LastDay
    /\ Len(stored.plans) >= 2
    /\ LET ex == stored.plans[1].days[CycleLength].exercises[1]
       IN  ex.completed > 0 /\ ex.completed < ex.target

\* C4: a recording on day 29 appends one plan to the end of the history,
\* starting the day after the old plan's endDate, ending 29 days after its
\* own startDate and holding 30 days (the render that ends the handler
\* pushes a further plan when that successor has already expired); and no
\* step removes a plan from the history or changes the dates or the
\* difficulty of one.
SuccessorAppended ==
    [][/\ (Recorded /\ modalDay = LastDay) =>
            LET n == Len(uiUser.plans)
                successor == stored'.plans[n + 1]
            IN  /\ Len(stored'.plans) >= n + 1
                /\ successor.startDate = PlanBefore.endDate + 1
                /\ successor.endDate = successor.startDate + EndOffset
                /\ Len(successor.days) = CycleLength
                /\ \/ Len(stored'.plans) = n + 1
                   \/ /\ now > InstantOf(successor.endDate)
                      /\ Len(stored'.plans) = n + 2
       /\ Len(stored'.plans) >= Len(stored.plans)
       /\ \A j \in 1..Len(stored.plans) :
            /\ stored'.plans[j].startDate = stored.plans[j].startDate
            /\ stored'.plans[j].endDate = stored.plans[j].endDate
            /\ stored'.plans[j].difficulty = stored.plans[j].difficulty
      ]_vars

\* The plan at position i has a successor in the history: a later plan that
\* starts the day after it ends.
Successors(user, i) ==
    {j \in (i + 1)..Len(user.plans) :
        user.plans[j].startDate = user.plans[i].endDate + 1}

\* C5: a plan causes at most one successor to be appended, also when its
\* last day is recorded again: recording the last day of a plan that has a
\* successor adds no plan to the history.
SpawnIsOneShot ==
    \A i \in 1..Len(stored.plans) :
       Successors(stored, i) # {} =>
          LET day == stored.plans[i].days[CycleLength]
              zeroCompleted == [e \in 1..Len(day.exercises) |-> JsNum(0)]
              again == updateDayCompletion(stored, i, LastDay, zeroCompleted,
                                           "N/A")
          IN  /\ Len(again.plans) = Len(stored.plans)
              /\ Cardinality(Successors(again, i)) <= 1

\* The ratio is a fraction between 0 and 1.
InUnit(r) == r.den > 0 /\ 0 <= r.num /\ r.num <= r.den

AllDays(user) ==
    {<<p, d>> : p \in 1..Len(user.plans), d \in 1..CycleLength}

\* C8: in every state, for every day of every plan of the history (stored or
\* held by the calendar), completionRatio(day) lies in [0, 1].
RatioInUnit ==
    /\ \A pd \in AllDays(stored) :
         InUnit(calculateDayCompletion(stored.plans[pd[1]].days[pd[2]]))
    /\ \A pd \in AllDays(uiUser) :
         InUnit(calculateDayCompletion(uiUser.plans[pd[1]].days[pd[2]]))

\* A day saved with an empty field, negative numbers and half of its first
\* target, and a day whose fields above target were saved: their ratios are
\* strictly between 0 and 1.
RatioInputsSeen ==
    /\ nRecords >= 2
    /\ \E pd \in AllDays(stored) :
         LET day == stored.plans[pd[1]].days[pd[2]]
             r == calculateDayCompletion(day)
         IN  /\ 0 < r.num /\ r.num < r.den
             /\ \E e \in 1..Len(day.exercises) :
                  day.exercises[e].completed > day.exercises[e].target
    /\ last.op = "save"
    /\ \E e \in 1..Len(last.fields) :
         last.fields[e] = EmptyField
    /\ \E e \in 1..Len(last.fields) :
         last.fields[e] = Typed(0 - 50)

\* C10: in every state, the completion cached on each day is the ratio of the
\* day's current exercise list.
CacheIsCurrent ==
    \A pd \in AllDays(stored) :
       LET day == stored.plans[pd[1]].days[pd[2]]
       IN  day.completion = calculateDayCompletion(day)

\* ------------------------------------------------------------------------
\* Properties of the end of a cycle (SpecCycle)
\* ------------------------------------------------------------------------

\* The sum of two fractions, in lowest terms.
RatioAdd(a, b) == Ratio(a.num * b.den + b.num * a.den, a.den * b.den)

\* The sum over the days from i on of completionRatio(day), added to acc, as
\* an exact fraction.
RECURSIVE RatioSum(_, _, _)
RatioSum(days, i, acc) ==
    IF i > Len(days) THEN acc
    ELSE LET next == RatioAdd(acc, calculateDayCompletion(days[i]))
         IN  IF next.den > 0 THEN RatioSum(days, i + 1, next) ELSE acc

\* The step function of avg = RatioSum / 30, in hundredths: avg >= 0.8
\* gives 1.1, avg < 0.5 gives 0.8, anything else 1.0.
StepOfMean(plan) ==
    LET sum == RatioSum(plan.days, 1, RatioZero)
        n == Len(plan.days)
    IN  IF 5 * sum.num >= 4 * n * sum.den THEN 110
        ELSE IF 2 * sum.num < n * sum.den THEN 80
        ELSE 100

\* C6: the factor applied when a cycle ends is the step function of the mean
\* over the plan's 30 days of completionRatio(day): at least 0.8 gives 1.1,
\* below 0.5 gives 0.8, anything else (0.5 included) gives 1.0; the plan
\* spawned carries the baseline multiplied by that factor.
FactorIsStepOfMean ==
    [][(Recorded /\ modalDay = LastDay) =>
         LET spawned == stored'.plans[Len(uiUser.plans) + 1]
         IN  /\ determineNextDifficulty(PlanAfter) = StepOfMean(PlanAfter)
             /\ spawned.difficulty * 100
                  = uiUser.preferences.difficulty * StepOfMean(PlanAfter)
      ]_vars

\* The targets of the plan are the adapted template targets scaled by the
\* plan's difficulty field.
ScaledBy(plan, equipment) ==
    \A i \in 1..Len(plan.days) :
       LET template == getDayTemplate((i - 1) % WeekLength)
       IN  \A j \in 1..Len(template) :
              LET ex == plan.days[i].exercises[j]
                  missing == \E t \in 1..Len(template[j].equipment) :
                                template[j].equipment[t] \notin equipment
                  adapted == IF missing
                             THEN Max(1, RoundDiv(template[j].target, 2))
                             ELSE template[j].target
              IN  ex.unit # "rest" =>
                     ex.target
                       = Max(1, RoundDiv(adapted * plan.difficulty, DiffOne))

\* C7: the plan spawned when a cycle ends has difficulty = the preference
\* difficulty of the user object recorded on, times one of the factors 0.8,
\* 1.0, 1.1, whatever the finished plan's own difficulty, and its targets
\* are generated with that multiplier.
BaselineTimesFactor ==
    [][(Recorded /\ modalDay = LastDay) =>
         LET spawned == stored'.plans[Len(uiUser.plans) + 1]
             baseline == uiUser.preferences.difficulty
         IN  /\ spawned.difficulty * 100
                  = baseline * determineNextDifficulty(PlanAfter)
             /\ spawned.difficulty * 100
                  \in {baseline * f : f \in {80, 100, 110}}
             /\ ScaledBy(spawned, uiUser.preferences.equipment)
      ]_vars

\* Two cycles ended with the baseline at 1.2: the second plan was generated
\* at 1.2 * 1.1, and the third at 1.2 * 1.1 or 1.2 * 0.8 again.
SecondCycleSeen ==
    /\ Len(stored.plans) >= 3
    /\ stored.preferences.difficulty = 12000
    /\ stored.plans[2].difficulty = 13200
    /\ stored.plans[3].difficulty \in {13200, 9600}

CurrentPlanByDate ==
    LET n == Len(stored.plans)
    IN  getCurrentPlan(stored, now)
          = (IF n = 0 \/ DateOf(now) > stored.plans[n].endDate THEN 0 ELSE n)

\* The plans a step appends to the stored history.
Appended == (Len(stored.plans) + 1)..Len(stored'.plans)

\* C12: a day recording never changes the stored preferences, and a plan
\* appended to the history is generated from the preferences stored when it
\* is generated (baseline times a factor, targets adapted to the stored
\* equipment).
SavedPreferencesRule ==
    [][/\ Recorded => stored'.preferences = stored.preferences
       /\ \A j \in Appended :
            /\ stored'.plans[j].difficulty * 100
                 \in {stored.preferences.difficulty * f :
                        f \in {80, 100, 110}}
            /\ ScaledBy(stored'.plans[j], stored.preferences.equipment)
      ]_vars

\* The exercises of a day beyond those generated from its template: the
\* carry-overs it holds.
CarriedInto(plan, i) ==
    LET exercises == plan.days[i].exercises
        generated == Len(getDayTemplate((i - 1) % WeekLength))
    IN  SubSeq(exercises, generated + 1, Len(exercises))

\* C20: after a recording on a day k < 29, also one that records the day
\* again, the carry-overs day k+1 holds have a total target equal to day k's
\* unmet remainder: none is duplicated, none is stale.
CarryOverMatchesRemainder ==
    [][(Recorded /\ modalDay < LastDay) =>
         LET carried == CarriedInto(PlanAfter, modalDay + 2)
         IN  SumSeq([j \in 1..Len(carried) |-> carried[j].target])
               = UnmetRemainder(PlanAfter.days[modalDay + 1].exercises)
      ]_vars

\* ------------------------------------------------------------------------
\* The core functions called directly (SpecCore)
\*
\* createPlan, adaptExerciseForEquipment and updateDayCompletion applied to
\* arguments of the caller's choice, also ones the page never passes: a
\* multiplier that is not positive, a day index outside the plan, values of
\* completedArray that are not numbers.  stored is the user object the calls
\* work on, last the latest call; the other variables are not used.
\* ------------------------------------------------------------------------

\* Calls of createPlan and updateDayCompletion one behaviour makes.
MaxCalls == 2

Calls == Len(stored.plans) + nRecords

\* difficulty arguments of createPlan: -0.5, 0, 0.8, 1.0, 1.2.
Multipliers ==
    {0 - DiffOne \div 2, 0, (DiffOne * 8) \div 10, DiffOne,
     (DiffOne * 12) \div 10}

\* startDate arguments of createPlan.
CoreStarts == {InstantOf(0), InstantOf(20)}

\* The equipment the user has.
EquipmentInputs == {{}, {"banda", "vesta"}, AllEquipment}

\* An exercise with a zero target that needs equipment; the catalog has none.
ZeroTarget ==
    Tmpl("Mobilitate cu banda", 0, "reps", "Miscari libere cu banda.",
         <<"banda">>)

\* exercise arguments of adaptExerciseForEquipment: the catalog and ZeroTarget.
AdaptInputs ==
    UNION {{getDayTemplate(w)[j] : j \in 1..Len(getDayTemplate(w))} :
             w \in 0..(WeekLength - 1)}
      \cup {ZeroTarget}

\* dayIndex arguments of updateDayCompletion.
CoreDayInputs == {0 - 1, 0, CycleLength - 1, CycleLength}

\* completedArray arguments of updateDayCompletion for a day's exercises:
\*   short    numbers, the first exercise 10 short of its target
\*   corrupt  by position 'abc', NaN, -3, undefined, and so on
\*   missing  the empty array
CoreValues(profile, exercises) ==
    IF profile = "missing" THEN <<>>
    ELSE [i \in 1..Len(exercises) |->
            IF profile = "short"
            THEN NumberOf(ProfileField("short", exercises[i], i))
            ELSE CASE i % 4 = 1 -> NonNumeric
                   [] i % 4 = 2 -> NaNVal
                   [] i % 4 = 3 -> JsNum(0 - 3)
                   [] OTHER -> Undefined]

CoreProfiles == {"short", "corrupt", "missing"}

\* Variant of CallUpdateDayCompletion that clamps the index into the plan
\* instead of failing; OutOfRangeFails does not hold with it.
CallUpdateDayCompletionClamped(user, planIdx, dayIndex, completedArray, feedback) ==
    LET days == user.plans[planIdx].days
        clamped == Max(0, Min(dayIndex, Len(days) - 1))
    IN  [threw |-> FALSE,
         user  |-> updateDayCompletion(user, planIdx, clamped, completedArray,
                                       feedback)]

\* A call of updateDayCompletion.  For an index outside the plan
\* plan.days[dayIndex] is undefined and `day.feedback = feedback` throws a
\* TypeError; nothing has been assigned before it.
CallUpdateDayCompletion(user, planIdx, dayIndex, completedArray, feedback) ==
    LET days == user.plans[planIdx].days
    IN  IF dayIndex + 1 \notin DOMAIN days
        THEN [threw |-> TRUE, user |-> user]
        ELSE [threw |-> FALSE,
              user  |-> updateDayCompletion(user, planIdx, dayIndex,
                                            completedArray, feedback)]

InitCore ==
    /\ \E equipment \in EquipmentInputs :
         stored = [plans       |-> <<>>,
                   preferences |-> [difficulty |-> DiffOne,
                                    equipment  |-> equipment]]
    /\ uiUser = [plans |-> <<>>, preferences |-> DefaultPreferences]
    /\ uiPlan = 0
    /\ modal = "none"
    /\ modalDay = 0
    /\ now = 0
    /\ nRecords = 0
    /\ nSettings = 0
    /\ nTicks = 0
    /\ last = [op |-> "none", day |-> 0, fields |-> <<>>]

\* user.plans.push(createPlan(startDate, difficulty, user.preferences))
Generate(startDate, difficulty) ==
    /\ Calls < MaxCalls
    /\ stored' = [plans       |-> Append(stored.plans,
                                    createPlan(startDate, difficulty,
                                               stored.preferences)),
                  preferences |-> stored.preferences]
    /\ last' = [op |-> "generate", day |-> 0, fields |-> <<>>]
    /\ UNCHANGED <<uiUser, uiPlan, modal, modalDay, now, nRecords, nSettings,
                   nTicks>>

\* adaptExerciseForEquipment(exercise, user.preferences.equipment); last
\* holds the argument and the result.  The function reads nothing else, so
\* it is called before the other two only.
Adapt(exercise) ==
    /\ Calls = 0
    /\ last' = [op     |-> "adapt",
                day    |-> 0,
                fields |-> <<exercise,
                             adaptExerciseForEquipment(
                                 exercise, stored.preferences.equipment)>>]
    /\ UNCHANGED <<stored, uiUser, uiPlan, modal, modalDay, now, nRecords,
                   nSettings, nTicks>>

\* updateDayCompletion(user, user.plans[planIdx], dayIndex, values, 'ok');
\* last holds the index, the values and whether the call threw.
Record(planIdx, dayIndex, profile) ==
    /\ Calls < MaxCalls
    /\ planIdx \in 1..Len(stored.plans)
    /\ LET days == stored.plans[planIdx].days
           values == IF dayIndex + 1 \in DOMAIN days
                     THEN CoreValues(profile, days[dayIndex + 1].exercises)
                     ELSE CoreValues(profile, days[1].exercises)
           r == CallUpdateDayCompletion(stored, planIdx, dayIndex, values,
                                        "ok")
       IN  /\ stored' = r.user
           /\ last' = [op     |-> IF r.threw THEN "throw" ELSE "record",
                       day    |-> dayIndex,
                       fields |-> values]
    /\ nRecords' = nRecords + 1
    /\ UNCHANGED <<uiUser, uiPlan, modal, modalDay, now, nSettings, nTicks>>

NextCore ==
    \/ \E startDate \in CoreStarts, difficulty \in Multipliers :
          Generate(startDate, difficulty)
    \/ \E exercise \in AdaptInputs : Adapt(exercise)
    \/ \E planIdx \in 1..MaxCalls, dayIndex \in CoreDayInputs,
          profile \in CoreProfiles :
          Record(planIdx, dayIndex, profile)

SpecCore == InitCore /\ [][NextCore]_vars

\* ------------------------------------------------------------------------
\* Properties of the core functions (SpecCore)
\* ------------------------------------------------------------------------

\* The plan the latest call of createPlan appended.
Generated == stored.plans[Len(stored.plans)]

\* Some tag the exercise requires is not in the equipment the user has.
Missing(exercise, equipment) ==
    \E t \in 1..Len(exercise.equipment) : exercise.equipment[t] \notin equipment

\* C13: a plan generated with multiplier 1.0 for a user who has every
\* equipment has exactly 30 days; day i holds, in order, the catalog
\* exercises of weekday i mod 7 with their catalog names, targets and units
\* and completed = 0; every day has empty feedback and completion 0.
IdentityPlanIsCatalog ==
    (/\ last.op = "generate"
     /\ Generated.difficulty = DiffOne
     /\ stored.preferences.equipment = AllEquipment)
    => /\ Len(Generated.days) = CycleLength
       /\ \A i \in 1..Len(Generated.days) :
            LET day == Generated.days[i]
                template == getDayTemplate((i - 1) % WeekLength)
            IN  /\ Len(day.exercises) = Len(template)
                /\ \A j \in 1..Len(template) :
                     /\ day.exercises[j].name = template[j].name
                     /\ day.exercises[j].target = template[j].target
                     /\ day.exercises[j].unit = template[j].unit
                     /\ day.exercises[j].completed = 0
                     /\ ~day.exercises[j].isNaN
                /\ day.feedback = ""
                /\ day.completion = RatioZero

\* A plan was just generated with multiplier 1.0 and every equipment.
IdentityPlanSeen ==
    /\ last.op = "generate"
    /\ Generated.difficulty = DiffOne
    /\ stored.preferences.equipment = AllEquipment
    /\ Len(Generated.days[CycleLength].exercises) = Len(getDayTemplate(1))

\* C14: the adapter returns name, target and description unchanged when the
\* exercise needs no equipment or the user has all of it; otherwise the
\* target is round(target / 2) floored at 1 when the original target is
\* above 0 and the original target when it is 0, the name gets the marker
\* and the description the note.
AdapterByCases ==
    last.op = "adapt" =>
        LET exercise == last.fields[1]
            adapted == last.fields[2]
        IN  IF ~Missing(exercise, stored.preferences.equipment)
            THEN /\ adapted.name = exercise.name
                 /\ adapted.target = exercise.target
                 /\ adapted.description = exercise.description
            ELSE /\ adapted.target
                      = (IF exercise.target > 0
                         THEN Max(1, RoundDiv(exercise.target, 2))
                         ELSE exercise.target)
                 /\ adapted.name = exercise.name \o " (adaptat)"
                 /\ adapted.description
                      = exercise.description
                          \o " (adaptat pentru lipsa echipamentului)"

\* C15: in every plan with a positive multiplier d each exercise generated
\* from the catalog has the target max(1, round(a * d)), a being the catalog
\* target, halved once when equipment is missing; a rest exercise has the
\* target a; the name is the catalog name, followed by the marker exactly
\* once when equipment is missing.
AdaptedOnceThenScaled ==
    \A p \in 1..Len(stored.plans) :
       LET plan == stored.plans[p]
       IN  plan.difficulty > 0 =>
             \A i \in 1..Len(plan.days) :
                LET template == getDayTemplate((i - 1) % WeekLength)
                IN  \A j \in 1..Len(template) :
                       LET ex == plan.days[i].exercises[j]
                           missing == Missing(template[j],
                                              stored.preferences.equipment)
                           a == IF missing
                                THEN Max(1, RoundDiv(template[j].target, 2))
                                ELSE template[j].target
                       IN  /\ ex.target
                                = (IF ex.unit = "rest" THEN a
                                   ELSE Max(1, RoundDiv(a * plan.difficulty,
                                                        DiffOne)))
                           /\ ex.name
                                = (IF missing
                                   THEN template[j].name \o " (adaptat)"
                                   ELSE template[j].name)

\* A plan generated with multiplier 1.2 for a user without dumbbells: the
\* squats are 30 in the catalog, 15 adapted, 18 scaled; the push-ups next to
\* them are not adapted.
AdaptedScaledSeen ==
    /\ Len(stored.plans) > 0
    /\ "gantere" \notin stored.preferences.equipment
    /\ Generated.difficulty = (DiffOne * 12) \div 10
    /\ Generated.days[1].exercises[1].target = 18
    /\ Generated.days[1].exercises[2].name = "Flotari clasice"
    /\ Generated.days[WeekLength].exercises[1].unit = "rest"

\* C16: for every exercise generated from the catalog that is not a rest
\* and whose target at multiplier 1.0 is not zero, a plan with a multiplier
\* above 1 has a target not below the one at 1.0 for the same equipment, and
\* a plan with a multiplier between 0 and 1 has a target not above it.
ScalingIsMonotonic ==
    \A p \in 1..Len(stored.plans) :
       LET plan == stored.plans[p]
           d == plan.difficulty
       IN  \A i \in 1..Len(plan.days) :
              LET template == getDayTemplate((i - 1) % WeekLength)
              IN  \A j \in 1..Len(template) :
                     LET ex == plan.days[i].exercises[j]
                         unscaled == PlanExercise(template[j], DiffOne,
                                                  stored.preferences).target
                     IN  (ex.unit # "rest" /\ unscaled # 0) =>
                            /\ d > DiffOne => ex.target >= unscaled
                            /\ (0 < d /\ d < DiffOne) => ex.target <= unscaled

\* Two plans for the same user, one generated with 1.2 and one with 0.8:
\* the first has the higher target for the first exercise.
ScaledBothWaysSeen ==
    /\ Len(stored.plans) = 2
    /\ stored.plans[1].difficulty > DiffOne
    /\ stored.plans[2].difficulty < DiffOne
    /\ stored.plans[2].difficulty > 0
    /\ stored.plans[1].days[1].exercises[1].target
         > stored.plans[2].days[1].exercises[1].target

\* C17: a call of updateDayCompletion with a dayIndex outside 0..29 fails
\* and leaves the user object as it was: plans, days, exercises, feedback
\* and cached completions.
OutOfRangeFails ==
    [][(Recorded /\ last'.day \notin 0..(CycleLength - 1)) =>
         /\ last'.op = "throw"
         /\ stored' = stored
      ]_vars

\* A call with dayIndex 30 and a non-empty completedArray on an existing
\* plan has thrown.
OutOfRangeSeen ==
    /\ last.op = "throw"
    /\ last.day = CycleLength
    /\ Len(last.fields) > 0
    /\ Len(stored.plans) > 0

\* C18: every plan of the history has a difficulty above 0 (createPlan with
\* a multiplier that is not positive produces no plan).
PlansHavePositiveDifficulty ==
    \A p \in 1..Len(stored.plans) : stored.plans[p].difficulty > 0

\* C19: after any recording every exercise's completed is a number >= 0: a
\* value that is missing, undefined, NaN, not numeric or negative is stored
\* as 0.
CompletedIsNumber ==
    \A pd \in AllDays(stored) :
       LET exercises == stored.plans[pd[1]].days[pd[2]].exercises
       IN  \A e \in 1..Len(exercises) :
              ~exercises[e].isNaN /\ exercises[e].completed >= 0

\* ------------------------------------------------------------------------
\* The date ranges of the history (Spec)
\* ------------------------------------------------------------------------

\* C21: in every state the plans of the stored history cover disjoint,
\* strictly increasing date ranges: each plan's startDate is after the
\* endDate of the plan before it, whether renderApp created the plan or a
\* recording on the last day spawned it.
RangesIncrease ==
    \A i \in 1..(Len(stored.plans) - 1) :
       /\ stored.plans[i].startDate <= stored.plans[i].endDate
       /\ stored.plans[i + 1].startDate > stored.plans[i].endDate

=============================================================================
